---- MODULE Spec2Model ----
(***************************************************************************)
(* The update queue of yanor_core (src/src/update.rs): a tick-indexed      *)
(* scheduler over a BinaryHeap of UpdateInfo entries, the Updatable        *)
(* entities it drives, and the Vec<Effect> sink the entities append to.    *)
(*                                                                         *)
(* Ticks are u32.  A u32 is written here as its two 16-bit halves          *)
(* [hi, lo], value hi * 65536 + lo, so that every u32 value is             *)
(* represented exactly and `info.time += dt` keeps its 32-bit width.       *)
(***************************************************************************)
EXTENDS Bags, FiniteSets, Integers, Sequences, TLC

(***************************************************************************)
(* Bounds of the model.                                                    *)
(***************************************************************************)
\* the number of UpdateQueue::update calls the driving loop makes
MaxSteps == 3
\* the number of UpdateQueue::update calls the draining caller makes
MaxSinkSteps == 2
\* the number of UpdateQueue::push calls the caller makes
MaxPushes == 2
\* the largest delay a generic entity's update returns
MaxDelay == 1
\* the largest number of effects a speaker's update appends
MaxBatch == 2

(***************************************************************************)
(* u32 arithmetic and comparison.                                          *)
(***************************************************************************)
U16 == 65536

U32(hi, lo) == [hi |-> hi, lo |-> lo]

\* a small u32 literal
Lit(n) == U32(0, n)

U32_MAX == U32(U16 - 1, U16 - 1)

\* u32::cmp
u32_cmp(a, b) ==
    IF a.hi < b.hi \/ (a.hi = b.hi /\ a.lo < b.lo) THEN "Less"
    ELSE IF a = b THEN "Equal"
    ELSE "Greater"

u32_le(a, b) == u32_cmp(a, b) # "Greater"

\* a + b overflows 32 bits
overflows(a, b) == a.hi + b.hi + ((a.lo + b.lo) \div U16) >= U16

\* a + b modulo 2^32
wrapping_add(a, b) ==
    U32((a.hi + b.hi + ((a.lo + b.lo) \div U16)) % U16, (a.lo + b.lo) % U16)

(***************************************************************************)
(* Option<u32>.                                                            *)
(***************************************************************************)
None == [some |-> FALSE]

Some(v) == [some |-> TRUE, val |-> v]

(***************************************************************************)
(* Message, Text and Effect (src/src/msg.rs, src/src/update.rs).           *)
(***************************************************************************)
Text_normal(text) ==
    [bold |-> FALSE, italic |-> FALSE, color |-> "Default",
     background_color |-> "Default", text |-> text]

Text_bold(text) ==
    [bold |-> TRUE, italic |-> FALSE, color |-> "Default",
     background_color |-> "Default", text |-> text]

Text_italic(text) ==
    [bold |-> FALSE, italic |-> TRUE, color |-> "Default",
     background_color |-> "Default", text |-> text]

Message_normal(contents) ==
    [kind |-> "Display", importance |-> "Normal", hidden |-> FALSE,
     contents |-> contents]

\* impl Debug for Text: the text alone
Text_fmt(t) == t.text

\* impl Debug for Message: every text followed by a space
RECURSIVE Message_fmt(_)
Message_fmt(m) ==
    IF m.contents = <<>> THEN ""
    ELSE Text_fmt(Head(m.contents)) \o " "
         \o Message_fmt([m EXCEPT !.contents = Tail(m.contents)])

\* Effect::Log
Log(msg) == [tag |-> "Log", msg |-> msg]

(***************************************************************************)
(* The state.                                                              *)
(***************************************************************************)
VARIABLES
    queue,            \* UpdateQueue.queue: the bag of UpdateInfo the heap holds
    ents,             \* the entities behind the &mut dyn Updatable handles
    effects,          \* the caller's Vec<Effect>, handed to every update call
    log,              \* the messages the caller has drained from effects
    wraps,            \* a u32 overflow has wrapped: the build has no overflow checks
    panicked,         \* an update call has panicked: the thread is gone
    rets,             \* history: what the update calls so far have returned
    last,             \* history: what the latest UpdateQueue::update call did
    retired,          \* history: entities whose latest update returned None
    batches,          \* history: the effect batches of the entity updates
    npush,            \* history: the number of push calls so far
    ncalls,           \* history: the number of UpdateQueue::update calls so far
    latePush,         \* history: a push was made after the first update call
    test,             \* the test being run and its inputs (tests/update.rs)
    pc                \* the position of the test's body

vars == <<queue, ents, effects, log, wraps, panicked, rets, last,
          retired, batches, npush, ncalls, latePush, test, pc>>

(***************************************************************************)
(* Updatable and its implementations.                                      *)
(***************************************************************************)
\* An entity that honours the contract of the Updatable trait and is
\* otherwise free in what its update returns: it is active until
\* deactivated, and its update may deactivate it.  It appends no effects.
Generic(name) == [kind |-> "Generic", name |-> name, active |-> TRUE]

\* An entity that honours the contract of the Updatable trait and is free in
\* the effects its update appends.
Speaker(name) == [kind |-> "Speaker", name |-> name, active |-> TRUE]

\* An entity that honours the contract of the Updatable trait and whose
\* update, when it returns a delay, returns one of at least 1.
Steady(name) == [kind |-> "Steady", name |-> name, active |-> TRUE]

Dummy1(max_updates) ==
    [kind |-> "Dummy1", update_count |-> 0, max_updates |-> max_updates]

Dummy2 == [kind |-> "Dummy2", has_updated |-> FALSE]

\* Messenger::new
Messenger_new(name, message) ==
    [kind |-> "Messenger",
     msg |-> Message_normal(<<Text_normal("Message from"), Text_bold(name),
                              Text_normal(":"), Text_italic(message)>>)]

\* Updatable::is_active
is_active(x) ==
    IF x.kind \in {"Generic", "Speaker", "Steady"} THEN x.active ELSE TRUE

\* Updatable::deactivate
deactivate(x) == [x EXCEPT !.active = FALSE]

\* An update call's outcomes: the entity afterwards, the returned Option<u32>
\* and the effects appended to the sink, in order.
Generic_update(x) ==
    { [self |-> [x EXCEPT !.active = a], dt |-> d, batch |-> <<>>] :
        a \in BOOLEAN,
        d \in {None} \cup {Some(Lit(n)) : n \in 0..MaxDelay} }

\* the first k effects a speaker appends in one update call
SpeakerBatch(x, k) ==
    [i \in 1..k |->
        Log(Message_normal(<<Text_bold(x.name), Text_normal(ToString(i))>>))]

Speaker_update(x) ==
    { [self |-> x, dt |-> d, batch |-> SpeakerBatch(x, k)] :
        d \in {None, Some(Lit(1))},
        k \in 0..MaxBatch }

\* the delays a steady entity returns: 2^30 and 2^31
LiveDelays == {U32(16384, 0), U32(32768, 0)}

Steady_update(x) ==
    { [self |-> [x EXCEPT !.active = a], dt |-> d, batch |-> <<>>] :
        a \in BOOLEAN,
        d \in {None} \cup {Some(t) : t \in LiveDelays} }

Dummy1_update(x) ==
    LET count == x.update_count + 1 IN
    { [self |-> [x EXCEPT !.update_count = count],
       dt |-> IF count <= x.max_updates THEN Some(Lit(2)) ELSE None,
       batch |-> <<>>] }

Dummy2_update(x) ==
    IF x.has_updated
    THEN { [self |-> x, dt |-> None, batch |-> <<>>] }
    ELSE { [self |-> [x EXCEPT !.has_updated = TRUE], dt |-> Some(Lit(25)),
            batch |-> <<>>] }

Messenger_update(x) ==
    { [self |-> x, dt |-> None, batch |-> <<Log(x.msg)>>] }

\* dyn Updatable: dispatch on the concrete type
Updatable_update(x) ==
    CASE x.kind = "Generic" -> Generic_update(x)
      [] x.kind = "Speaker" -> Speaker_update(x)
      [] x.kind = "Steady" -> Steady_update(x)
      [] x.kind = "Dummy1" -> Dummy1_update(x)
      [] x.kind = "Dummy2" -> Dummy2_update(x)
      [] x.kind = "Messenger" -> Messenger_update(x)

(***************************************************************************)
(* UpdateInfo and the heap.                                                *)
(***************************************************************************)
UpdateInfo(time, updatable) == [time |-> time, updatable |-> updatable]

\* cmp as a slip would have it: the order of the times, not reversed
cmp_not_reversed(self, other) == u32_cmp(self.time, other.time)

\* impl Ord for UpdateInfo: the reverse of the order of the times
cmp(self, other) ==
    CASE u32_cmp(self.time, other.time) = "Greater" -> "Less"
      [] u32_cmp(self.time, other.time) = "Less" -> "Greater"
      [] OTHER -> "Equal"

\* BinaryHeap::push
heap_push(q, info) == q (+) SetToBag({info})

\* pop as a slip would have it: the item is taken out with ==, which for
\* UpdateInfo compares the times only, so every entry of its tick goes
heap_pop_by_eq(q) ==
    { [item |-> i,
       rest |-> [j \in { j \in BagToSet(q) : j.time # i.time } |->
                   CopiesIn(j, q)]] :
        i \in { i \in BagToSet(q) :
                  \A j \in BagToSet(q) : cmp(i, j) # "Less" } }

\* BinaryHeap::pop on a non-empty heap: a greatest item and the heap without
\* it; which of several equal greatest items comes out is the heap's choice
heap_pop(q) ==
    { [item |-> i, rest |-> q (-) SetToBag({i})] :
        i \in { i \in BagToSet(q) :
                  \A j \in BagToSet(q) : cmp(i, j) # "Less" } }

\* the pops as a slip would have them: give up at the first inactive entity
PopLoop_gives_up(q, es, popped) ==
    IF BagToSet(q) = {}
    THEN { [found |-> FALSE, rest |-> q, popped |-> popped] }
    ELSE { [found |-> is_active(es[p.item.updatable]), info |-> p.item,
            rest |-> p.rest, popped |-> Append(popped, p.item)] :
           p \in heap_pop(q) }

\* the pops as a slip would have them: is_active is never asked
PopLoop_unchecked(q, es, popped) ==
    IF BagToSet(q) = {}
    THEN { [found |-> FALSE, rest |-> q, popped |-> popped] }
    ELSE { [found |-> TRUE, info |-> p.item, rest |-> p.rest,
            popped |-> Append(popped, p.item)] :
           p \in heap_pop(q) }

\* the entries of the heap whose entity is active, as a heap
Purged(q, es) ==
    [j \in { j \in BagToSet(q) : is_active(es[j.updatable]) } |->
       CopiesIn(j, q)]

\* the pops as a slip would have them: every inactive entry is dropped from
\* the heap at once, not only the popped ones
PopLoop_purges(q, es, popped) ==
    IF BagToSet(q) = {}
    THEN { [found |-> FALSE, rest |-> q, popped |-> popped] }
    ELSE LET ps == { p \in heap_pop(q) : is_active(es[p.item.updatable]) }
         IN  IF ps = {}
             THEN { [found |-> FALSE, rest |-> Purged(q, es),
                     popped |-> Append(popped, p.item)] : p \in heap_pop(q) }
             ELSE { [found |-> TRUE, info |-> p.item,
                     rest |-> Purged(p.rest, es),
                     popped |-> Append(popped, p.item)] : p \in ps }

\* The pops of UpdateQueue::update: pop until an active entity comes out or
\* the heap is empty.  popped lists the popped entries in order.
RECURSIVE PopLoop(_, _, _)
PopLoop(q, es, popped) ==
    IF BagToSet(q) = {}
    THEN { [found |-> FALSE, rest |-> q, popped |-> popped] }
    ELSE UNION {
           IF is_active(es[p.item.updatable])
           THEN { [found |-> TRUE, info |-> p.item, rest |-> p.rest,
                   popped |-> Append(popped, p.item)] }
           ELSE PopLoop(p.rest, es, Append(popped, p.item)) :
           p \in heap_pop(q) }

\* info.time += dt: "ok" in range.  On overflow the outcome is the build's:
\* "panic" with overflow checks (debug), "wrap" modulo 2^32 without them
\* (release).  The build is one and the same throughout a run, and a panic
\* ends the run, so only a build that has wrapped before is known: it wraps.
AddAssign(time, dt, wrapped) ==
    IF ~overflows(time, dt) THEN {"ok"}
    ELSE IF wrapped THEN {"wrap"} ELSE {"panic", "wrap"}

\* the heap as a slip would leave it: the entry goes back whatever update
\* returned
Reschedule_always(rest, info, dt) ==
    heap_push(rest, IF dt.some
                    THEN [info EXCEPT !.time = wrapping_add(info.time, dt.val)]
                    ELSE info)

\* the heap as a slip would leave it: info.time = dt for info.time += dt
Reschedule_at_dt(rest, info, dt) ==
    IF dt.some THEN heap_push(rest, [info EXCEPT !.time = dt.val]) ELSE rest

\* the heap as a slip would leave it: the entry is read with peek, so it
\* stays in the heap when the entity is pushed at its new tick
Reschedule_peeked(rest, info, dt) ==
    IF dt.some
    THEN heap_push(heap_push(rest, info),
                   [info EXCEPT !.time = wrapping_add(info.time, dt.val)])
    ELSE rest

\* the heap after the update call returned dt for info (lines 109-112)
Reschedule(rest, info, dt) ==
    IF dt.some
    THEN heap_push(rest, [info EXCEPT !.time = wrapping_add(info.time, dt.val)])
    ELSE rest

\* the sink as a slip would leave it: the entity is handed a fresh Vec,
\* which then replaces the caller's
SinkAfter_replaced(sink, batch) == batch

\* the sink as a slip would leave it: the batch goes in at the front
SinkAfter_in_front(sink, batch) == batch \o sink

\* the sink after the update call appended batch
SinkAfter(sink, batch) == sink \o batch

\* the update calls as a slip would make them: one for every popped entry
Called_every_pop(p) == [k \in 1..Len(p.popped) |-> p.popped[k].updatable]

\* the update calls one UpdateQueue::update makes, given the pops it made
Called(p) == IF p.found THEN <<p.info.updatable>> ELSE <<>>

Op(name) ==
    [op |-> name, popped |-> <<>>, called |-> <<>>, dt |-> None,
     batch |-> <<>>]

(***************************************************************************)
(* UpdateQueue.                                                            *)
(***************************************************************************)
\* the entities that have an entry in the heap
Scheduled(q) == { i.updatable : i \in BagToSet(q) }

\* UpdateQueue::new, with the caller's empty sink and log
new ==
    /\ queue = EmptyBag
    /\ effects = <<>>
    /\ log = <<>>
    /\ wraps = FALSE
    /\ panicked = FALSE
    /\ rets = <<>>
    /\ last = Op("new")
    /\ retired = {}
    /\ batches = <<>>
    /\ npush = 0
    /\ ncalls = 0
    /\ latePush = FALSE

\* UpdateQueue::push
push(time, updatable) ==
    /\ queue' = heap_push(queue, UpdateInfo(time, updatable))
    /\ retired' = retired \ {updatable}
    /\ npush' = npush + 1
    /\ latePush' = (latePush \/ ncalls > 0)
    /\ UNCHANGED <<ents, effects, log, wraps, panicked, rets, last,
                   batches, ncalls>>

\* UpdateQueue::update.  The histories rets, batches and ncalls grow with
\* every call; with keep false they are left as they are, which bounds the
\* states of a caller that never stops calling.
update_with(keep) ==
    \E p \in PopLoop(queue, ents, <<>>) :
        /\ ncalls' = IF keep THEN ncalls + 1 ELSE ncalls
        /\ UNCHANGED <<log, npush, latePush>>
        /\ IF ~p.found
           THEN /\ queue' = p.rest
                /\ rets' = IF keep THEN Append(rets, None) ELSE rets
                /\ last' = [Op("update") EXCEPT !.popped = p.popped]
                /\ UNCHANGED <<ents, effects, wraps, panicked, retired, batches>>
           ELSE \E r \in Updatable_update(ents[p.info.updatable]) :
                \E add \in IF r.dt.some
                            THEN AddAssign(p.info.time, r.dt.val, wraps)
                            ELSE {"ok"} :
                LET now == p.info.time
                IN  /\ wraps' = (wraps \/ add = "wrap")
                    /\ ents' = [ents EXCEPT ![p.info.updatable] = r.self]
                    /\ effects' = SinkAfter(effects, r.batch)
                    /\ batches' = IF keep THEN Append(batches, r.batch)
                                  ELSE batches
                    /\ last' = [op |-> "update", popped |-> p.popped,
                                called |-> Called(p), dt |-> r.dt,
                                batch |-> r.batch]
                    /\ retired' = IF r.dt.some
                                  THEN retired \ {p.info.updatable}
                                  ELSE retired \cup {p.info.updatable}
                    /\ IF add = "panic"
                       THEN /\ panicked' = TRUE
                            /\ queue' = p.rest
                            /\ rets' = rets
                       ELSE /\ panicked' = FALSE
                            /\ queue' = Reschedule(p.rest, p.info, r.dt)
                            /\ rets' = IF keep THEN Append(rets, Some(now))
                                       ELSE rets

update == update_with(TRUE)

\* the caller drains the sink: for effect in effects.drain(..), Log(msg) is
\* pushed onto the log
drain ==
    /\ log' = log \o [i \in 1..Len(effects) |-> effects[i].msg]
    /\ effects' = <<>>
    /\ UNCHANGED <<queue, ents, wraps, panicked, rets, last, retired,
                   batches, npush, ncalls, latePush>>

(***************************************************************************)
(* Spec: a caller that pushes, deactivates, steps and drains in any order. *)
(***************************************************************************)
EntityOrder == <<"e1", "e2", "e3">>

Entities == { EntityOrder[i] : i \in DOMAIN EntityOrder }

\* an entity the caller has not used yet; unused entities are alike, and the
\* caller takes them in order
Unused(e) ==
    is_active(ents[e]) /\ e \notin Scheduled(queue) /\ e \notin retired

Usable ==
    { EntityOrder[i] : i \in { i \in DOMAIN EntityOrder :
        Unused(EntityOrder[i]) =>
            \A j \in 1..(i - 1) : ~Unused(EntityOrder[j]) } }

\* the ticks the caller pushes at
PushTicks == {Lit(0), Lit(1), U32_MAX}

Init ==
    /\ new
    /\ ents = [e \in Entities |-> Generic(e)]
    /\ test = [name |-> "none"]
    /\ pc = "caller"

Push ==
    /\ ~panicked
    /\ npush < MaxPushes
    /\ \E e \in Usable \ Scheduled(queue) : \E t \in PushTicks : push(t, e)
    /\ UNCHANGED <<test, pc>>

Deactivate ==
    /\ ~panicked
    /\ \E e \in Usable :
        /\ is_active(ents[e])
        /\ ents' = [ents EXCEPT ![e] = deactivate(ents[e])]
    /\ UNCHANGED <<queue, effects, log, wraps, panicked, rets, last,
                   retired, batches, npush, ncalls, latePush, test, pc>>

Step ==
    /\ ~panicked
    /\ ncalls < MaxSteps
    /\ update
    /\ UNCHANGED <<test, pc>>

Next == Push \/ Deactivate \/ Step

Spec == Init /\ [][Next]_vars

(***************************************************************************)
(* SpecSink: the same caller, which also drains the sink, over entities    *)
(* that append effects.                                                    *)
(***************************************************************************)
\* the ticks the caller pushes speakers at
SinkTicks == {Lit(0), Lit(1)}

SinkInit ==
    /\ new
    /\ ents = [e \in Entities |-> Speaker(e)]
    /\ test = [name |-> "none"]
    /\ pc = "caller"

SinkPush ==
    /\ npush < MaxPushes
    /\ \E e \in Usable \ Scheduled(queue) : \E t \in SinkTicks : push(t, e)
    /\ UNCHANGED <<test, pc>>

\* the draining caller deactivates scheduled entities
SinkDeactivate ==
    /\ \E e \in Scheduled(queue) :
        /\ is_active(ents[e])
        /\ ents' = [ents EXCEPT ![e] = deactivate(ents[e])]
    /\ UNCHANGED <<queue, effects, log, wraps, panicked, rets, last,
                   retired, batches, npush, ncalls, latePush, test, pc>>

SinkStep ==
    /\ ncalls < MaxSinkSteps
    /\ update
    /\ UNCHANGED <<test, pc>>

SinkDrain ==
    /\ effects # <<>>
    /\ drain
    /\ UNCHANGED <<test, pc>>

SinkNext == SinkPush \/ SinkDeactivate \/ SinkStep \/ SinkDrain

SpecSink == SinkInit /\ [][SinkNext]_vars

(***************************************************************************)
(* SpecLive: a caller that, after its pushes, calls update for ever, as    *)
(* the loop `while let Some(..) = queue.update(..)` does while there is    *)
(* work, over entities whose delays are at least 1.                        *)
(***************************************************************************)
LiveInit ==
    /\ new
    /\ ents = [e \in Entities |-> Steady(e)]
    /\ test = [name |-> "none"]
    /\ pc = "caller"

LivePush ==
    /\ ~panicked
    /\ npush < MaxPushes
    /\ \E e \in Usable \ Scheduled(queue) : \E t \in PushTicks : push(t, e)
    /\ UNCHANGED <<test, pc>>

LiveDeactivate ==
    /\ ~panicked
    /\ \E e \in Scheduled(queue) :
        /\ is_active(ents[e])
        /\ ents' = [ents EXCEPT ![e] = deactivate(ents[e])]
    /\ UNCHANGED <<queue, effects, log, wraps, panicked, rets, last,
                   retired, batches, npush, ncalls, latePush, test, pc>>

LiveStep ==
    /\ ~panicked
    /\ update_with(FALSE)
    /\ UNCHANGED <<test, pc>>

LiveNext == LivePush \/ LiveDeactivate \/ LiveStep

\* the caller never stops calling update
SpecLive == LiveInit /\ [][LiveNext]_vars /\ WF_vars(LiveStep)

\* the ticks an entry of a steady entity can have
LiveTicks ==
    { wrapping_add(t, U32(16384 * k, 0)) : t \in PushTicks, k \in 0..3 }

(***************************************************************************)
(* SpecTests: the tests `ordering` and `effects` of tests/update.rs (and   *)
(* update_queue_basic of src/lib.rs), run on the inputs of the tests, on    *)
(* inputs around them and on ticks at the top of the range of u32.         *)
(***************************************************************************)
\* Dummy1 { max_updates: 10 } in the tests
MaxUpdates == 10

\* the length of the tests' array of returned times
TimesLen == 13

\* a tick two below u32::MAX + 1, which the first delay of a dummy overflows
NearMax == U32(65535, 65534)

OrderingTests ==
    { [name |-> "ordering", time1 |-> t1, time2 |-> t2, max_updates |-> m] :
        t1 \in {Lit(10), Lit(3), NearMax},
        t2 \in {Lit(0), Lit(12), NearMax},
        m \in 0..MaxUpdates }

EffectsTests ==
    { [name |-> "effects", time1 |-> t1, time2 |-> t2] :
        t1 \in {Lit(0), Lit(1), Lit(2)}, t2 \in {Lit(0), Lit(1), Lit(2)} }

\* the entities the test builds
TestEntities(t) ==
    IF t.name = "ordering"
    THEN [dummy1 |-> Dummy1(t.max_updates), dummy2 |-> Dummy2]
    ELSE [messenger1 |-> Messenger_new("Jessie", "Hello!"),
          messenger2 |-> Messenger_new("tester", "testing")]

First(t) == IF t.name = "ordering" THEN "dummy1" ELSE "messenger1"

Second(t) == IF t.name = "ordering" THEN "dummy2" ELSE "messenger2"

TestInit ==
    /\ new
    /\ test \in OrderingTests \cup EffectsTests
    /\ ents = TestEntities(test)
    /\ pc = "push1"

TestPush1 ==
    /\ pc = "push1"
    /\ push(test.time1, First(test))
    /\ pc' = "push2"
    /\ UNCHANGED test

TestPush2 ==
    /\ pc = "push2"
    /\ push(test.time2, Second(test))
    /\ pc' = "loop"
    /\ UNCHANGED test

\* while let Some(time) = queue.update(&mut effects)
TestUpdate ==
    /\ pc = "loop"
    /\ update
    /\ pc' = IF panicked' THEN "panic"
             ELSE IF ~rets'[Len(rets')].some THEN "done"
             ELSE IF test.name = "effects" THEN "drain"
             ELSE "loop"
    /\ UNCHANGED test

\* the body of the loop of `effects`
TestDrain ==
    /\ pc = "drain"
    /\ drain
    /\ pc' = "loop"
    /\ UNCHANGED test

TestNext == TestPush1 \/ TestPush2 \/ TestUpdate \/ TestDrain

SpecTests == TestInit /\ [][TestNext]_vars

\* the heap of the test when its loop begins
TestHeap(t) ==
    heap_push(heap_push(EmptyBag, UpdateInfo(t.time1, First(t))),
              UpdateInfo(t.time2, Second(t)))

\* The ticks the calls of one run of the loop `while let Some(time) =
\* queue.update(..)` return, from heap q and entities es, in a build without
\* overflow checks: the run in which every tie is resolved as CHOOSE does.
\* The entities are those of the tests, whose update has one outcome.
RECURSIVE RunTicks(_, _)
RunTicks(q, es) ==
    LET p == CHOOSE p \in PopLoop(q, es, <<>>) : TRUE
    IN  IF ~p.found THEN <<>>
        ELSE LET r == CHOOSE r \in Updatable_update(es[p.info.updatable]) :
                         TRUE
             IN  <<p.info.time>> \o
                 RunTicks(Reschedule(p.rest, p.info, r.dt),
                          [es EXCEPT ![p.info.updatable] = r.self])

\* the array `times` of `ordering` when the loop has ended
Times ==
    [i \in 1..TimesLen |->
        IF i <= Len(rets) /\ rets[i].some THEN rets[i].val ELSE Lit(0)]

(***************************************************************************)
(* What the claims speak of.                                               *)
(***************************************************************************)
\* an UpdateQueue::update call is made in this step
StepTaken == ncalls' = ncalls + 1

\* that call returns
StepReturns == Len(rets') = Len(rets) + 1

\* a push is made in this step
PushTaken == npush' = npush + 1

\* the entries of the heap whose entity is active
ActiveEntries(q, es) == { i \in BagToSet(q) : is_active(es[i.updatable]) }

\* i is an active entry of the least tick among the active entries
MinActive(i, q, es) ==
    /\ i \in ActiveEntries(q, es)
    /\ \A j \in ActiveEntries(q, es) : u32_le(i.time, j.time)

\* the ticks the update calls so far have returned, in order
RECURSIVE Ticks(_)
Ticks(rs) ==
    IF rs = <<>> THEN <<>>
    ELSE IF Head(rs).some THEN <<Head(rs).val>> \o Ticks(Tail(rs))
    ELSE Ticks(Tail(rs))

NonDecreasing(ts) ==
    \A i, j \in 1..Len(ts) : i < j => u32_le(ts[i], ts[j])

(***************************************************************************)
(* C1.  When every push is made before the first update call, the ticks    *)
(* the update calls return, up to the first None, never decrease, whatever *)
(* delays the entities return.                                             *)
(* The code breaks it: without overflow checks info.time += dt wraps.      *)
(***************************************************************************)
C1_TicksNonDecreasing ==
    ~latePush => NonDecreasing(Ticks(rets))

(***************************************************************************)
(* C2.  An update call on a queue that holds an active entry calls update  *)
(* on an active entry of the least tick among the active entries and       *)
(* returns Some of that tick.                                              *)
(* The code breaks it: with overflow checks info.time += dt panics and the *)
(* call returns nothing.                                                   *)
(***************************************************************************)
C2_MinActiveUpdated ==
    [][ (StepTaken /\ ActiveEntries(queue, ents) # {}) =>
          /\ StepReturns
          /\ \E i \in ActiveEntries(queue, ents) :
                /\ MinActive(i, queue, ents)
                /\ last'.called = <<i.updatable>>
                /\ rets'[Len(rets')] = Some(i.time) ]_vars

(***************************************************************************)
(* C3.  An update call returns None exactly when the queue holds no active *)
(* entry at the call; that call calls no update and leaves the queue       *)
(* empty, having popped every entry; and the queue stays empty, so later   *)
(* calls return None too, until a push is made.                            *)
(***************************************************************************)
C3_NoneIffNoActive ==
    [][ /\ StepTaken =>
            /\ (StepReturns /\ rets'[Len(rets')] = None)
                  <=> (ActiveEntries(queue, ents) = {})
            /\ ActiveEntries(queue, ents) = {} =>
                  /\ last'.called = <<>>
                  /\ BagToSet(queue') = {}
                  /\ { last'.popped[k] : k \in 1..Len(last'.popped) }
                        = BagToSet(queue)
        /\ (BagToSet(queue) = {} /\ ~PushTaken) => BagToSet(queue') = {} ]_vars

\* a call found two entries, both inactive, discarded them and returned None
C3_Witness ==
    /\ last.op = "update"
    /\ Len(last.popped) = 2
    /\ rets # <<>>
    /\ rets[Len(rets)] = None
    /\ BagToSet(queue) = {}

(***************************************************************************)
(* C4.  When the update that an update call returning now makes yields a   *)
(* delay dt, the queue then holds exactly one entry for the entity, of     *)
(* tick now + dt.                                                          *)
(* The code breaks it: without overflow checks info.time += dt wraps and   *)
(* the tick of the entry is now + dt - 2^32.                               *)
(***************************************************************************)
C4_ReinsertedAtNowPlusDt ==
    [][ (StepTaken /\ StepReturns /\ last'.dt.some) =>
          LET e == last'.called[1]
              now == rets'[Len(rets')].val
          IN  /\ ~overflows(now, last'.dt.val)
              /\ \E i \in BagToSet(queue') :
                    /\ i.updatable = e
                    /\ i.time = wrapping_add(now, last'.dt.val)
                    /\ CopiesIn(i, queue') = 1
                    /\ \A j \in BagToSet(queue') : j.updatable = e => j = i ]_vars

(***************************************************************************)
(* C5.  When an entity's update returns None, the update call that made it *)
(* leaves no entry for the entity in the queue, and no later update call   *)
(* calls update on the entity unless it is pushed again.                   *)
(***************************************************************************)
C5_RetiredNeverUpdated ==
    [][ StepTaken =>
          /\ (last'.called # <<>> /\ ~last'.dt.some) =>
                last'.called[1] \notin Scheduled(queue')
          /\ \A k \in 1..Len(last'.called) : last'.called[k] \notin retired ]_vars

\* an entity is retired, and a later call updated another one, which goes on
C5_Witness ==
    /\ retired # {}
    /\ last.op = "update"
    /\ last.called # <<>>
    /\ last.dt.some
    /\ Len(rets) >= 2

(***************************************************************************)
(* C6.  An entity that is inactive before an update call is not passed to  *)
(* update by that call, and a call that pops the entry of an inactive      *)
(* entity leaves no entry for it in the queue.                             *)
(***************************************************************************)
C6_InactiveNeverUpdated ==
    [][ StepTaken =>
          /\ \A k \in 1..Len(last'.called) : is_active(ents[last'.called[k]])
          /\ \A k \in 1..Len(last'.popped) :
                ~is_active(ents[last'.popped[k].updatable]) =>
                    last'.popped[k].updatable \notin Scheduled(queue') ]_vars

\* a call popped the entry of an inactive entity first, discarded it, and
\* updated the active entity it popped next; an earlier call had returned
C6_Witness ==
    /\ last.op = "update"
    /\ Len(last.popped) = 2
    /\ last.called = <<last.popped[2].updatable>>
    /\ ~is_active(ents[last.popped[1].updatable])
    /\ last.popped[1].updatable \notin Scheduled(queue)
    /\ Len(rets) >= 2

(***************************************************************************)
(* C7.  What the caller has drained, followed by what the sink still       *)
(* holds, is the effect batches of the updated entities one after the      *)
(* other in the order of the updates, each batch in the order its effects  *)
(* were appended, whenever the caller drains.                              *)
(***************************************************************************)
RECURSIVE Flatten(_)
Flatten(bs) == IF bs = <<>> THEN <<>> ELSE Head(bs) \o Flatten(Tail(bs))

Msgs(es) == [i \in 1..Len(es) |-> es[i].msg]

C7_EffectsInProcessingOrder ==
    log \o Msgs(effects) = Msgs(Flatten(batches))

\* two entities appended two effects each in two calls, and the caller
\* drained after the second
C7_Witness ==
    /\ Len(batches) = 2
    /\ Len(batches[1]) = 2
    /\ Len(batches[2]) = 2
    /\ batches[1] # batches[2]
    /\ Len(log) = 4
    /\ effects = <<>>

(***************************************************************************)
(* C8.  `ordering`: with a Dummy1 of max_updates 10 pushed at 10 and a     *)
(* Dummy2 pushed at 0, the update calls return 0, 10, 12, 14, 16, 18, 20,  *)
(* 22, 24, 25, 26, 28, 30 and then None.                                   *)
(***************************************************************************)
OrderingTest ==
    [name |-> "ordering", time1 |-> Lit(10), time2 |-> Lit(0),
     max_updates |-> MaxUpdates]

OrderingTimes ==
    << Lit(0), Lit(10), Lit(12), Lit(14), Lit(16), Lit(18), Lit(20), Lit(22),
       Lit(24), Lit(25), Lit(26), Lit(28), Lit(30) >>

C8_OrderingScenario ==
    (test = OrderingTest /\ pc \in {"done", "panic"}) =>
        /\ pc = "done"
        /\ rets = [i \in 1..(Len(OrderingTimes) + 1) |->
                     IF i <= Len(OrderingTimes) THEN Some(OrderingTimes[i])
                     ELSE None]
        /\ Times = OrderingTimes

\* the loop of `ordering` has ended
C8_Witness ==
    /\ test = OrderingTest
    /\ pc = "done"
    /\ ncalls = 14

(***************************************************************************)
(* C9.  `effects`: with messenger1 pushed at 0 and messenger2 pushed at 1  *)
(* and the sink drained after every update call, the log holds two         *)
(* messages when the queue is exhausted: messenger1's, then messenger2's.  *)
(***************************************************************************)
EffectsTest == [name |-> "effects", time1 |-> Lit(0), time2 |-> Lit(1)]

C9_MessengerScenario ==
    (test = EffectsTest /\ pc \in {"done", "panic"}) =>
        /\ pc = "done"
        /\ log = <<ents.messenger1.msg, ents.messenger2.msg>>
        /\ Message_fmt(log[1]) = Message_fmt(ents.messenger1.msg)
        /\ Message_fmt(log[2]) = Message_fmt(ents.messenger2.msg)
        /\ Message_fmt(log[1]) = "Message from Jessie : Hello! "
        /\ Message_fmt(log[2]) = "Message from tester : testing "

\* the loop of `effects` has ended
C9_Witness ==
    /\ test = EffectsTest
    /\ pc = "done"
    /\ Len(log) = 2
    /\ effects = <<>>

(***************************************************************************)
(* C10.  An update call calls update on at most one entity: on exactly one *)
(* when it returns Some, on none when it returns None, however many        *)
(* inactive entries it discards.                                           *)
(***************************************************************************)
C10_AtMostOneUpdate ==
    [][ StepTaken =>
          /\ Len(last'.called) <= 1
          /\ (StepReturns /\ rets'[Len(rets')].some) => Len(last'.called) = 1
          /\ (StepReturns /\ ~rets'[Len(rets')].some) => Len(last'.called) = 0
      ]_vars

\* a call discarded an inactive entry of an earlier tick, updated one entity,
\* which asked for no further update, and returned
C10_Witness ==
    /\ last.op = "update"
    /\ Len(last.popped) = 2
    /\ last.popped[1].time # last.popped[2].time
    /\ Len(last.called) = 1
    /\ ~last.dt.some
    /\ rets # <<>>
    /\ rets[Len(rets)] = Some(last.popped[2].time)


(***************************************************************************)
(* C11.  Whatever the caller does between the update calls, a push         *)
(* included, the ticks the update calls return never decrease.  Stated     *)
(* here for the runs in which no addition has wrapped, so that a violation *)
(* shows a failure that owes nothing to the overflow.                      *)
(* The code breaks it: push takes any tick, one below the tick the last    *)
(* update call returned included, and the next update call returns it.     *)
(***************************************************************************)
C11_TicksNeverGoBack ==
    ~wraps => NonDecreasing(Ticks(rets))

(***************************************************************************)
(* C12.  When no push is made for an entity that has an entry in the heap, *)
(* no entity ever has more than one entry in the heap: the push that       *)
(* follows an update call puts back the entry that call popped.            *)
(***************************************************************************)
C12_OneEntryPerEntity ==
    \A i, j \in BagToSet(queue) :
        /\ CopiesIn(i, queue) = 1
        /\ i.updatable = j.updatable => i = j

\* an update call has put the entity it updated back beside another entry
C12_Witness ==
    /\ last.op = "update"
    /\ last.called # <<>>
    /\ last.dt.some
    /\ ~panicked
    /\ last.called[1] \in Scheduled(queue)
    /\ Cardinality(BagToSet(queue)) = 2

\* the caller deactivates an entity in this step
DeactivateTaken == ~StepTaken /\ ~PushTaken /\ ents' # ents

\* the entries an update call popped and dropped, given its record
Discarded(l) ==
    IF l.called = <<>> THEN l.popped
    ELSE SubSeq(l.popped, 1, Len(l.popped) - 1)

(***************************************************************************)
(* C13.  Deletion is lazy.  Deactivating an entity leaves the heap as it   *)
(* is.  An update call that returns Some(now) leaves in the heap every     *)
(* entry of an inactive entity whose tick is above now, and every entry it *)
(* drops has a tick of at most now.                                        *)
(***************************************************************************)
C13_LazyDeletion ==
    [][ /\ DeactivateTaken => queue' = queue
        /\ (StepTaken /\ StepReturns /\ rets'[Len(rets')].some) =>
             LET now == rets'[Len(rets')].val
             IN  /\ \A i \in BagToSet(queue) :
                       (~is_active(ents[i.updatable]) /\ ~u32_le(i.time, now))
                       => CopiesIn(i, queue') = CopiesIn(i, queue)
                 /\ \A k \in 1..Len(Discarded(last')) :
                       u32_le(Discarded(last')[k].time, now) ]_vars

\* an update call has returned Some(now), and the entry of an inactive
\* entity with a tick above now is in the heap
C13_Witness ==
    /\ last.op = "update"
    /\ last.called # <<>>
    /\ rets # <<>>
    /\ rets[Len(rets)].some
    /\ ~latePush
    /\ \E i \in BagToSet(queue) :
          /\ ~is_active(ents[i.updatable])
          /\ i.updatable # last.called[1]
          /\ ~u32_le(i.time, rets[Len(rets)].val)

(***************************************************************************)
(* C14.  An update call drops no entry of an active entity: every entity   *)
(* that is active and in the heap when the call is made, other than the    *)
(* one the call updates, keeps its entry at its tick.  A push leaves every *)
(* entry of the heap as it is.                                             *)
(***************************************************************************)
C14_ActiveEntriesKept ==
    [][ /\ StepTaken =>
             \A i \in ActiveEntries(queue, ents) :
                 (last'.called = <<>> \/ i.updatable # last'.called[1])
                 => CopiesIn(i, queue') = CopiesIn(i, queue)
        /\ PushTaken =>
             \A i \in BagToSet(queue) :
                 CopiesIn(i, queue') = CopiesIn(i, queue) ]_vars

\* an update call has updated one of two active entities of the same tick,
\* and the other one has its entry at that tick
C14_Witness ==
    /\ last.op = "update"
    /\ last.called # <<>>
    /\ ~latePush
    /\ \E i \in ActiveEntries(queue, ents) :
          /\ i.updatable # last.called[1]
          /\ i.time = last.popped[Len(last.popped)].time



(***************************************************************************)
(* C15.  After an update call the sink is the sink before it followed by   *)
(* the effects of the one entity update the call made, in the order the    *)
(* entity appended them; a call that updates no entity, as one that        *)
(* returns None, leaves the sink as it is.  A push leaves the sink and the *)
(* drained log as they are.                                                *)
(***************************************************************************)
C15_SinkOnlyAppended ==
    [][ /\ StepTaken =>
             /\ effects' = effects \o
                   (IF last'.called = <<>> THEN <<>> ELSE last'.batch)
             /\ Len(batches') - Len(batches) = Len(last'.called)
             /\ Len(last'.called) <= 1
             /\ (StepReturns /\ ~rets'[Len(rets')].some) => effects' = effects
        /\ PushTaken => (effects' = effects /\ log' = log) ]_vars

\* an update call has appended effects to a sink that was not empty
C15_Witness ==
    /\ last.op = "update"
    /\ last.called # <<>>
    /\ last.batch # <<>>
    /\ Len(effects) > Len(last.batch)
    /\ SubSeq(effects, Len(effects) - Len(last.batch) + 1, Len(effects))
         = last.batch
    /\ effects[1] # last.batch[1]



(***************************************************************************)
(* C16.  For every tick now and every delay dt, the tick at which an       *)
(* update call puts an entity back is not below now: info.time += dt does  *)
(* not wrap modulo 2^32.                                                   *)
(* The code breaks it: without overflow checks the addition wraps and the  *)
(* entity is put back at now + dt - 2^32, which is below now.              *)
(***************************************************************************)
C16_ReinsertedNotBelowNow ==
    [][ (StepTaken /\ StepReturns /\ last'.dt.some) =>
          LET now == rets'[Len(rets')].val
          IN  \A i \in BagToSet(queue') :
                  i.updatable = last'.called[1] => u32_le(now, i.time) ]_vars



(***************************************************************************)
(* C17.  When every delay is at least 1 and the pushes come to an end, a   *)
(* caller that keeps calling update sees every entry of the heap popped in *)
(* the end, however the other entities reschedule themselves.  A run that  *)
(* panics counts as one that keeps the claim.                              *)
(* The code breaks it: without overflow checks an entity's tick wraps to   *)
(* below the tick of a waiting entry, again and again, and the waiting     *)
(* entry is never the minimum.                                             *)
(***************************************************************************)
C17_NoStarvation ==
    \A e \in Entities : \A t \in LiveTicks :
        (UpdateInfo(t, e) \in BagToSet(queue))
        ~> (panicked \/ UpdateInfo(t, e) \notin BagToSet(queue))



(***************************************************************************)
(* C18.  When every entity returns None after finitely many updates and    *)
(* the pushes are finitely many, the loop that calls update comes to an    *)
(* end with a call that returns None on an empty heap, and then the calls  *)
(* that returned Some are as many as the entity updates made.  Stated for  *)
(* the loops of the tests: the loop stops nowhere but at that call.        *)
(* The code breaks it: with overflow checks info.time += dt panics, and    *)
(* the loop ends in the panic after an entity update whose call returned   *)
(* nothing.                                                                *)
(***************************************************************************)
C18_DriveLoopEnds ==
    /\ pc = "done" \/ ENABLED TestNext
    /\ pc = "done" =>
          /\ BagToSet(queue) = {}
          /\ rets[Len(rets)] = None
          /\ Len(Ticks(rets)) = Len(batches)



(***************************************************************************)
(* C19.  The ticks the calls of a loop return do not depend on how ties    *)
(* between entries of the same tick are resolved, when what an entity does *)
(* depends on the number of its updates only.  Any two runs of a test on   *)
(* the same pushes return the same ticks if and only if every run returns  *)
(* the ticks of one fixed run, RunTicks, of that test; so stated, for the  *)
(* loops that have ended.                                                  *)
(* The code breaks it: without overflow checks a tick that wraps falls     *)
(* below the tick of the entry it was tied with, and the two orders of the *)
(* tie return different ticks.                                             *)
(***************************************************************************)
C19_TicksWhateverTheTies ==
    pc = "done" => Ticks(rets) = RunTicks(TestHeap(test), TestEntities(test))


====
